---- MODULE Spec2Model ----
(***************************************************************************)
(* mcp-loader: the hot-reload tool registry of the loader entry point.     *)
(*                                                                         *)
(* State: the tool directory (fs), the loader's own table registeredTools  *)
(* (file base name -> tool names), the SDK server's table of registered    *)
(* tools (server._registeredTools), the debounce state (pendingReloads,    *)
(* reloadTimeout) and the async runs in flight: run 1 is loadAllTools (the *)
(* initial scan), every later run is one firing of the debounce timer.     *)
(* A run is suspended only at an await (readdir, stat, import,             *)
(* sendToolListChanged); everything between two awaits is one step.        *)
(* Spec is the loader and its directory; SpecHist adds the history of     *)
(* reads and edits, SpecClock the clock and the module loader's cache,     *)
(* SpecInvoke the invocation of registered tools, SpecLive fair scheduling.*)
(***************************************************************************)
EXTENDS Integers, Sequences, FiniteSets, TLC

\* ---------------------------------------------------------------- bounds
MaxBatches == 2    \* firings of the debounce timer
MaxEvents == 2     \* eligible watcher events delivered
MaxEdits == 1      \* changes made to the directory by the user
MaxNow == 2        \* readings of the clock after the first

\* ------------------------------------------------------- directory inputs
\* Files that may exist in the tool directory.  m.ts / m.js differ only in
\* their extension; m.ts exporting x_add and m_x.ts exporting add derive the
\* same tool name m_x_add.
Files == {"m.ts", "m.js", "m_x.ts"}

\* The order in which readdir lists the directory; m.md, a file of another
\* kind, is always there.
DirOrder == <<"m.js", "m.md", "m.ts", "m_x.ts">>

\* Named exports in the order Object.entries lists a module namespace.
KeyOrder == <<"add", "x_add">>

\* A module is its set of exports <<key, kind>>; kind "tool" is an object
\* with a string description and a callable execute, "nodesc" one without
\* a description, "fn" a function (or class) that carries a string
\* description and a callable execute as properties.
ModAddXAdd == {<<"add", "tool">>, <<"x_add", "tool">>}
ModDefaultAdd == {<<"default", "tool">>, <<"add", "tool">>}
ModAddNoDesc == {<<"add", "tool">>, <<"default", "nodesc">>, <<"x_add", "fn">>}

\* What a path holds: a loadable module, a file whose import rejects with
\* an Error, a file whose import rejects with null (its top level runs
\* `throw null`), nothing.
Ok(m) == [st |-> "ok", mod |-> m]
Broken == [st |-> "broken", mod |-> {}]
BrokenNull == [st |-> "null", mod |-> {}]
Missing == [st |-> "ENOENT", mod |-> {}]

\* The contents each file takes in the explored runs.
Contents(file) ==
  CASE file = "m.ts" -> {Ok(ModAddXAdd), Broken, BrokenNull, Missing}
    [] file = "m.js" -> {Ok(ModDefaultAdd), Missing}
    [] OTHER -> {Ok(ModAddNoDesc), Missing}

\* The directories explored: each holds m.ts and one more file.
Dirs == {{"m.ts", "m.js"}, {"m.ts", "m_x.ts"}}

\* --------------------------------------------------------------- state
VARIABLES
  hotReload,          \* neither MCP_NO_HOT_RELOAD=true nor --no-hot-reload
  dirExists,          \* toolDir is a directory
  proc,               \* "starting", "connected" (server.connect called),
                      \*   or "crashed" (an error escaped to the top level)
  dir,                \* the files the tool directory may hold
  fs,                 \* file -> content
  dupThrows,          \* does server.tool reject a name that is registered
  registeredTools,    \* base name -> set of tool names
  serverTools,        \* server._registeredTools: tool name -> providing file
  watching,           \* the fs.watch callback is installed
  pendingReloads,     \* Set<string> in insertion order
  reloadTimeout,      \* "null", "armed", or "fired" (a handle that has run)
  timers,             \* the timers that are set and have neither run nor
                      \*   been cleared
  runs,               \* the async runs: <<loadAllTools, timer callbacks...>>
  notifications,      \* calls of server.server.sendToolListChanged
  evCount,            \* file -> eligible events since the last drain
                      \*   (0, 1, or 2 for two and more)
  hist,               \* history switch: are dirty, pre and same recorded
  dirty,              \* history: file -> edited since the read of the
                      \*   last load that has returned
  contributed,        \* history: files that have registered a tool
  nEvents, nEdits,    \* counters that bound the exploration
  clock,              \* time switch: are now, armedAt and moduleMap kept
  now,                \* Date.now()
  armedAt,            \* the time at which the timer was last armed
  moduleMap,          \* the module loader's cache: import URL -> what the
                      \*   first import of that URL read
  call                \* the last invocation of a registered tool

vars == <<hotReload, dirExists, proc, dir, fs, dupThrows, registeredTools, serverTools, watching,
          pendingReloads, reloadTimeout, timers, runs, notifications,
          evCount, hist, dirty, contributed, nEvents, nEdits,
          clock, now, armedAt, moduleMap, call>>

\* ------------------------------------------------------- pure functions
EndsWith(s, suffix) ==
  /\ Len(s) >= Len(suffix)
  /\ SubSeq(s, Len(s) - Len(suffix) + 1, Len(s)) = suffix

\* A filter that would let every name through.
EligibleAlways(file) == TRUE

\* file.endsWith(".ts") || file.endsWith(".js")
Eligible(file) == EndsWith(file, ".ts") \/ EndsWith(file, ".js")

\* file.replace(/\.(ts|js)$/, "")
BaseName(file) ==
  IF Eligible(file) THEN SubSeq(file, 1, Len(file) - 3) ELSE file

\* What typeof and the property tests of isToolDefinition see of a value.
Shape(kind) ==
  CASE kind = "tool" ->
         [type |-> "object", description |-> "string", execute |-> "function"]
    [] kind = "nodesc" ->
         [type |-> "object", description |-> "absent", execute |-> "function"]
    [] OTHER ->
         [type |-> "function", description |-> "string", execute |-> "function"]

\* A guard that would not look at typeof.
isToolDefinitionAnyType(kind) ==
  /\ Shape(kind).description = "string"
  /\ Shape(kind).execute = "function"

isToolDefinition(kind) ==
  /\ Shape(kind).type = "object"
  /\ Shape(kind).description = "string"
  /\ Shape(kind).execute = "function"

\* The names loadToolFile registers for a module, in registration order:
\* the default export first, then the named exports.
ExportNames(baseName, mod) ==
  LET IsTool(k) == \E e \in mod : e[1] = k /\ isToolDefinition(e[2])
      keys == SelectSeq(KeyOrder, IsTool)
      named == [j \in 1..Len(keys) |-> baseName \o "_" \o keys[j]]
  IN  IF IsTool("default") THEN <<baseName>> \o named ELSE named

Range(s) == {s[j] : j \in 1..Len(s)}

Without(f, keys) == [k \in (DOMAIN f) \ keys |-> f[k]]

\* ------------------------------------------------------------- registry
\* An unregistration that would leave the server's table alone.
unregisterTrackingOnly(rt, sk, file) ==
  [rt |-> Without(rt, {BaseName(file)}), sk |-> sk]

\* unregisterFileTools(file) on the two tables.
unregisterFileTools(rt, sk, file) ==
  LET baseName == BaseName(file) IN
  IF baseName \in DOMAIN rt
    THEN [rt |-> Without(rt, {baseName}), sk |-> Without(sk, rt[baseName])]
    ELSE [rt |-> rt, sk |-> sk]

\* registerTool(name, tool, baseName): track the name, then server.tool.
\* threw: server.tool rejected the name as already registered.
registerTool(rt, sk, name, baseName, file) ==
  LET tracked == IF baseName \in DOMAIN rt THEN rt[baseName] ELSE {}
      rt2 == (baseName :> (tracked \cup {name})) @@ rt
  IN  IF name \in DOMAIN sk /\ dupThrows
        THEN [rt |-> rt2, sk |-> sk, threw |-> TRUE]
        ELSE [rt |-> rt2, sk |-> (name :> file) @@ sk, threw |-> FALSE]

\* The registrations of one load, in order, stopping at the first throw.
RECURSIVE RegisterAll(_, _, _, _, _)
RegisterAll(rt, sk, names, baseName, file) ==
  IF names = <<>> THEN [rt |-> rt, sk |-> sk, threw |-> FALSE]
  ELSE LET r == registerTool(rt, sk, Head(names), baseName, file) IN
       IF r.threw THEN r
       ELSE RegisterAll(r.rt, r.sk, Tail(names), baseName, file)

\* ------------------------------------------------------------ scheduling
\* pendingReloads.add(filename): a Set keeps one entry per filename.
PendingAdd(pending, filename) ==
  IF filename \in Range(pending) THEN pending ELSE Append(pending, filename)

\* if (files.length > 0) before the notification.
ShouldNotify(r) == Len(r.files) > 0

\* A loop that would not wait for a call and pass on to the file after
\* the next.
AfterLoadSkipping(r, outcome) ==
  [r EXCEPT !.i = @ + 2, !.outcomes = Append(@, outcome)]

\* loadToolFile has returned for the current file of run r: its catch has
\* swallowed any error, and the for loop moves on to the next file.
AfterLoad(r, outcome) ==
  [r EXCEPT !.i = @ + 1, !.outcomes = Append(@, outcome)]

NewRun(kind, files, burst) ==
  [kind |-> kind, files |-> files, i |-> 1, pc |-> "start", snap |-> {},
   outcomes |-> <<>>, notified |-> 0, burst |-> burst,
   pre |-> <<>>, same |-> FALSE, fresh |-> FALSE, gone |-> FALSE,
   t |-> 0]

NoBurst == [f \in Files |-> 0]

\* History of the file contents the loads have read.  A run's pre is the
\* server's table when its current call began, same says that since then
\* no other run was in progress and that the file was not edited since the
\* last finished load read it, fresh that the file was not edited since
\* this call's import read it, gone that the file was already deleted when
\* the call began.
MarkRead(file) == IF hist THEN [dirty EXCEPT ![file] = FALSE] ELSE dirty
MarkEdited(file) == IF hist THEN [dirty EXCEPT ![file] = TRUE] ELSE dirty

\* A run that has ended keeps only whether it sent a notification.
Finished(r) ==
  [NewRun(r.kind, <<>>, NoBurst) EXCEPT !.pc = "done", !.notified = r.notified]

\* Run r goes on from file r.i up to its next await: a file of another
\* kind returns at once; an eligible file is unregistered and its stat is
\* awaited.  After the last file loadAllTools is finished (the top level
\* then installs the watcher), and a timer callback calls
\* sendToolListChanged if it had files.
RECURSIVE Proceed(_, _, _, _)
Proceed(r, rt, sk, dt) ==
  IF r.i > Len(r.files)
    THEN IF r.kind = "scan"
           THEN [run |-> Finished(r), rt |-> rt, sk |-> sk]
           ELSE IF ShouldNotify(r)
             THEN [run |-> [r EXCEPT !.pc = "notify", !.notified = @ + 1,
                                     !.snap = {}, !.pre = <<>>,
                                     !.same = FALSE, !.fresh = FALSE,
                                     !.gone = FALSE],
                   rt |-> rt, sk |-> sk]
             ELSE [run |-> Finished(r), rt |-> rt, sk |-> sk]
    ELSE LET file == r.files[r.i] IN
         IF ~Eligible(file)
           THEN Proceed(AfterLoad(r, "skipped"), rt, sk, dt)
           ELSE LET u == unregisterFileTools(rt, sk, file) IN
                [run |-> [r EXCEPT !.pc = "stat", !.snap = {}, !.fresh = FALSE,
                                   !.pre = IF hist THEN sk ELSE <<>>,
                                   !.gone = hist /\ fs[file].st = "ENOENT",
                                   !.same = /\ hist
                                            /\ ~dt[file]
                                            /\ \A q \in 1..Len(runs) :
                                                 runs[q] = r \/ runs[q].pc = "done"],
                 rt |-> u.rt, sk |-> u.sk]

\* The file whose loadToolFile call run p is in, or has just returned from.
CurFile(p) ==
  IF runs[p].pc = "returned" THEN runs[p].files[runs[p].i - 1]
  ELSE runs[p].files[runs[p].i]

\* The loadToolFile call of run p returns with `outcome`, leaving the
\* tables as rt and sk.  dt: the dirty marks after this step's read.
Return(p, outcome, dt, rt, sk) ==
  /\ runs' = [runs EXCEPT ![p] = [AfterLoad(runs[p], outcome)
                                    EXCEPT !.pc = "returned", !.t = 0]]
  /\ registeredTools' = rt
  /\ serverTools' = sk
  /\ dirty' = dt

\* A loadToolFile call of run p is suspended at one of its awaits.
InFlight(p) == runs[p].pc \in {"stat", "import", "eval"}

\* A call has just returned: its caller's loop continues in the same turn
\* of the event loop, before any timer, watcher event or other run.
Idle == \A p \in 1..Len(runs) : runs[p].pc # "returned"

\* No tool has been invoked.
NoCall == [name |-> "", behavior |-> "", result |-> ""]

\* No error has escaped to the top level of the process.
Alive == proc # "crashed"

\* A loader that would install the watcher whatever the toggle says.
WatcherInstalledAlways(hr) == TRUE

\* if (hotReload) around the watcher set-up.
WatcherInstalled(hr) == hr

\* The top level once loadAllTools has returned (scanEnds): with hot reload
\* enabled it calls fs.watch, which throws if toolDir does not exist, and
\* nothing catches that; otherwise it goes on to server.connect.
TopLevel(scanEnds) ==
  IF scanEnds
    THEN IF WatcherInstalled(hotReload) /\ ~dirExists
           THEN watching' = FALSE /\ proc' = "crashed"
           ELSE watching' = WatcherInstalled(hotReload) /\ proc' = "connected"
    ELSE UNCHANGED <<watching, proc>>

\* The import of run p's file rejects with null: the catch of loadToolFile
\* reads e.code of null and throws in its turn.  In loadAllTools the
\* catch around the loop takes it and the scan is over; in a timer
\* callback nothing takes it, the callback's promise rejects, and the
\* process goes on or is ended, as the runtime treats unhandled rejections.
Escape(p) ==
  /\ runs' = [runs EXCEPT ![p] = Finished(runs[p])]
  /\ IF runs[p].kind = "scan"
       THEN TopLevel(TRUE)
       ELSE watching' = watching /\ proc' \in {proc, "crashed"}
  /\ UNCHANGED <<registeredTools, serverTools, dirty>>

\* ---------------------------------------------------------------- Init
InitAny ==
  /\ hotReload \in BOOLEAN
  /\ dirExists \in BOOLEAN
  /\ proc = "starting"
  /\ dir \in Dirs
  /\ fs \in {f \in [Files -> UNION {Contents(file) : file \in Files}] :
               \A file \in Files :
                 f[file] \in IF dirExists /\ file \in dir
                               THEN Contents(file) ELSE {Missing}}
  /\ dupThrows \in BOOLEAN
  /\ registeredTools = <<>>
  /\ serverTools = <<>>
  /\ watching = FALSE
  /\ pendingReloads = <<>>
  /\ reloadTimeout = "null"
  /\ timers = 0
  /\ runs = <<[NewRun("scan", <<>>, NoBurst) EXCEPT !.pc = "readdir"]>>
  /\ notifications = 0
  /\ evCount = NoBurst
  /\ dirty = [f \in Files |-> TRUE]
  /\ contributed = {}
  /\ nEvents = 0
  /\ nEdits = 0
  /\ now = 0
  /\ armedAt = 0
  /\ moduleMap = <<>>
  /\ call = NoCall

\* -------------------------------------------------------------- actions
\* loadAllTools: readdir resolves with the files present, and the loop
\* starts on the first of them; if toolDir does not exist readdir rejects,
\* which the catch of loadAllTools reports ("No tools found").
ReaddirDone ==
  /\ runs[1].pc = "readdir"
  /\ LET present(f) == f \notin Files \/ fs[f].st # "ENOENT"
         r == [runs[1] EXCEPT !.files = IF dirExists
                                          THEN SelectSeq(DirOrder, present)
                                          ELSE <<>>]
         res == Proceed(r, registeredTools, serverTools, dirty)
     IN  /\ runs' = [runs EXCEPT ![1] = res.run]
         /\ registeredTools' = res.rt
         /\ serverTools' = res.sk
         /\ TopLevel(res.run.pc = "done")
  /\ UNCHANGED <<timers, call, clock, now, armedAt, moduleMap, hotReload, dirExists, hist, contributed, dir, fs, dupThrows, pendingReloads, reloadTimeout, notifications,
                 evCount, dirty, nEvents, nEdits>>

\* The module loader's key for the import of `file`: with hot reload the
\* file URL with ?t=Date.now(), without it the bare file URL (token 0).
importUrl(file) == <<file, IF hotReload THEN now ELSE 0>>

\* await stat(filePath): ENOENT is caught ("File deleted"), otherwise the
\* import is issued for importUrl.
StatDone(p) ==
  /\ Alive
  /\ Idle
  /\ runs[p].pc = "stat"
  /\ IF fs[CurFile(p)].st = "ENOENT"
       THEN Return(p, "retracted", MarkRead(CurFile(p)),
                   registeredTools, serverTools)
       ELSE /\ runs' = [runs EXCEPT ![p].pc = "import",
                                    ![p].t = importUrl(CurFile(p))[2]]
            /\ UNCHANGED <<registeredTools, serverTools, dirty>>
  /\ UNCHANGED <<timers, call, clock, now, armedAt, moduleMap, hotReload, dirExists, proc, hist, contributed, dir, fs, dupThrows, pendingReloads, reloadTimeout,
                 evCount, notifications, watching, nEvents, nEdits>>

\* await import(importUrl), first half: the module loader reads the file,
\* unless it already holds a module for this URL, which it then returns.
\* A file that is gone or does not load rejects the import, which is
\* caught ("Failed to load"); otherwise the module is being evaluated.
ImportRead(p) ==
  /\ Alive
  /\ Idle
  /\ runs[p].pc = "import"
  /\ LET url == <<CurFile(p), runs[p].t>>
         content == IF clock /\ url \in DOMAIN moduleMap
                      THEN moduleMap[url] ELSE fs[CurFile(p)]
     IN  /\ moduleMap' = IF clock THEN (url :> content) @@ moduleMap
                                   ELSE moduleMap
         /\ CASE content.st = "ok" ->
                  /\ runs' = [runs EXCEPT ![p].pc = "eval",
                                          ![p].snap = content.mod,
                                          ![p].fresh = hist,
                                          ![p].t = 0]
                  /\ UNCHANGED <<registeredTools, serverTools, dirty,
                                 watching, proc>>
             [] content.st = "null" -> Escape(p)
             [] OTHER ->
                  /\ Return(p, "failed", MarkRead(CurFile(p)),
                            registeredTools, serverTools)
                  /\ UNCHANGED <<watching, proc>>
  /\ UNCHANGED <<timers, call, clock, now, armedAt, hotReload, dirExists, hist,
                 contributed, dir, fs, dupThrows, pendingReloads,
                 reloadTimeout, evCount, notifications, nEvents, nEdits>>

\* await import(importUrl), second half: the import resolves and the
\* exports are registered; a throw of server.tool is caught as a failure.
ImportDone(p) ==
  /\ Alive
  /\ Idle
  /\ runs[p].pc = "eval"
  /\ LET file == CurFile(p)
         reg == RegisterAll(registeredTools, serverTools,
                            ExportNames(BaseName(file), runs[p].snap),
                            BaseName(file), file)
     IN  /\ Return(p, IF reg.threw THEN "failed" ELSE "active",
                   IF runs[p].fresh THEN MarkRead(file) ELSE dirty,
                   reg.rt, reg.sk)
         /\ contributed' =
              IF hist /\ (\E n \in DOMAIN reg.sk : reg.sk[n] = file)
                THEN contributed \cup {file} ELSE contributed
  /\ UNCHANGED <<timers, call, clock, now, armedAt, moduleMap, hotReload, dirExists, proc, hist, dir, fs, dupThrows, pendingReloads, reloadTimeout,
                 evCount, notifications, watching, nEvents, nEdits>>

\* The for loop of run p after a loadToolFile call has returned: the next
\* file, or the end of the loop.  The top level installs the watcher once
\* loadAllTools is finished.
LoopNext(p) ==
  /\ runs[p].pc = "returned"
  /\ LET res == Proceed(runs[p], registeredTools, serverTools, dirty)
     IN  /\ runs' = [runs EXCEPT ![p] = res.run]
         /\ registeredTools' = res.rt
         /\ serverTools' = res.sk
         /\ notifications' = notifications + (res.run.notified - runs[p].notified)
         /\ TopLevel(res.run.kind = "scan" /\ res.run.pc = "done")
  /\ UNCHANGED <<timers, call, clock, now, armedAt, moduleMap, hotReload, dirExists, hist, contributed, dir, fs, dupThrows, pendingReloads, reloadTimeout,
                 evCount, dirty, nEvents, nEdits>>

\* await server.server.sendToolListChanged() settles (a rejection is
\* caught and logged).
NotifyDone(p) ==
  /\ Alive
  /\ Idle
  /\ runs[p].pc = "notify"
  /\ runs' = [runs EXCEPT ![p] = Finished(runs[p])]
  /\ UNCHANGED <<timers, call, clock, now, armedAt, moduleMap, hotReload, dirExists, proc, hist, contributed, dir, fs, dupThrows, registeredTools, serverTools, watching,
                 pendingReloads, reloadTimeout, notifications, evCount,
                 dirty, nEvents, nEdits>>

\* A scheduleReload that would leave the old timer set.
clearTimeoutNever(timeout, n) == n

\* if (reloadTimeout) clearTimeout(reloadTimeout): of n timers that are
\* set, the one the handle names is cleared; a handle whose timer has run
\* clears nothing.
clearTimeout(timeout, n) == IF timeout = "armed" THEN n - 1 ELSE n

\* scheduleReload: clearTimeout of the old handle, then a new timer.
scheduleReload(timeout) == "armed"

\* What the fs.watch callback makes of pendingReloads and the timer for
\* an event with `filename` ("" for an event without one).
Watched(filename) ==
  IF filename # "" /\ Eligible(filename)
    THEN [pendingReloads |-> PendingAdd(pendingReloads, filename),
          reloadTimeout |-> scheduleReload(reloadTimeout),
          timers |-> clearTimeout(reloadTimeout, timers) + 1,
          armedAt |-> IF clock THEN now ELSE armedAt]
    ELSE [pendingReloads |-> pendingReloads,
          reloadTimeout |-> reloadTimeout,
          timers |-> timers,
          armedAt |-> armedAt]

\* The fs.watch callback.
WatchEvent(filename) ==
  /\ Alive
  /\ Idle
  /\ watching
  /\ nEvents < MaxEvents
  /\ pendingReloads' = Watched(filename).pendingReloads
  /\ reloadTimeout' = Watched(filename).reloadTimeout
  /\ timers' = Watched(filename).timers
  /\ armedAt' = Watched(filename).armedAt
  /\ IF filename # "" /\ Eligible(filename)
       THEN /\ evCount' = [evCount EXCEPT ![filename] = IF @ = 0 THEN 1 ELSE 2]
            /\ nEvents' = nEvents + 1
       ELSE UNCHANGED <<evCount, nEvents>>
  /\ UNCHANGED <<call, clock, now, moduleMap, hotReload, dirExists, proc, hist, contributed, dir, fs, dupThrows, registeredTools, serverTools, watching, runs,
                 notifications, dirty, nEdits>>

\* The debounce timer fires: the pending set is copied and cleared and the
\* loop starts on its first file.
TimerFire ==
  /\ Alive
  /\ Idle
  /\ timers > 0
  /\ clock => (now > armedAt)
  /\ Len(runs) < MaxBatches + 1
  /\ LET r == NewRun("batch", pendingReloads, evCount)
         res == Proceed(r, registeredTools, serverTools, dirty)
     IN  /\ runs' = Append([q \in 1..Len(runs) |->
                              [runs[q] EXCEPT !.same = FALSE]], res.run)
         /\ registeredTools' = res.rt
         /\ serverTools' = res.sk
         /\ notifications' = notifications + res.run.notified
  /\ pendingReloads' = <<>>
  /\ timers' = timers - 1
  /\ reloadTimeout' = IF timers = 1 THEN "fired" ELSE reloadTimeout
  /\ evCount' = NoBurst
  /\ UNCHANGED <<call, clock, now, armedAt, moduleMap, hotReload, dirExists, proc, hist, contributed, dir, fs, dupThrows, watching, dirty, nEvents, nEdits>>

\* The user creates, rewrites or deletes a file of the directory.
Edit(file, content) ==
  /\ Alive
  /\ Idle
  /\ dirExists
  /\ nEdits < MaxEdits
  /\ fs[file] # content
  /\ fs' = [fs EXCEPT ![file] = content]
  /\ dirty' = MarkEdited(file)
  /\ runs' = [p \in 1..Len(runs) |->
                IF hist /\ InFlight(p) /\ CurFile(p) = file
                  THEN [runs[p] EXCEPT !.same = FALSE, !.fresh = FALSE]
                  ELSE runs[p]]
  /\ nEdits' = nEdits + 1
  /\ UNCHANGED <<timers, call, clock, now, armedAt, moduleMap, hotReload, dirExists, proc, hist, contributed, dir, dupThrows, registeredTools,
                 serverTools, watching, pendingReloads, reloadTimeout,
                 notifications, evCount, nEvents>>

Next ==
  \/ ReaddirDone
  \/ \E p \in 1..Len(runs) : StatDone(p)
  \/ \E p \in 1..Len(runs) : ImportRead(p)
  \/ \E p \in 1..Len(runs) : ImportDone(p)
  \/ \E p \in 1..Len(runs) : LoopNext(p)
  \/ \E p \in 1..Len(runs) : NotifyDone(p)
  \/ \E filename \in dir \cup {"m.md", ""} : WatchEvent(filename)
  \/ TimerFire
  \/ \E file \in dir : \E content \in Contents(file) : Edit(file, content)

Init == InitAny /\ hist = FALSE /\ clock = FALSE
Spec == Init /\ [][Next]_vars

\* The same program with the history of reads and edits recorded.
InitHist == InitAny /\ hist = TRUE /\ clock = FALSE
SpecHist == InitHist /\ [][Next]_vars

\* Time passes.
Tick ==
  /\ Alive
  /\ Idle
  /\ clock
  /\ now < MaxNow
  /\ now' = now + 1
  /\ UNCHANGED <<hotReload, dirExists, proc, dir, fs, dupThrows,
                 registeredTools, serverTools, watching, pendingReloads,
                 reloadTimeout, timers, runs, notifications, evCount, hist, dirty,
                 contributed, nEvents, nEdits, clock, armedAt, moduleMap,
                 call>>

\* The same program with the clock running and the module loader's cache
\* kept.
NextClock == Next \/ Tick
InitClock == InitAny /\ hist = FALSE /\ clock = TRUE
SpecClock == InitClock /\ [][NextClock]_vars

\* The handler registerTool passes to server.tool, called for a tool
\* whose execute returns a string, returns another value, throws or
\* rejects: it awaits tool.execute and wraps the result as text; both
\* forms (with and without args) do the same, and neither has a catch.
Adapter(hasArgs, behavior) ==
  CASE behavior = "string" -> "content: result"
    [] behavior = "value" -> "content: JSON.stringify(result)"
    [] OTHER -> "rejected"

\* The steps the event loop takes by itself: every settled await is
\* resumed and every due timer runs.
Program ==
  \/ ReaddirDone
  \/ \E p \in 1..Len(runs) : StatDone(p)
  \/ \E p \in 1..Len(runs) : ImportRead(p)
  \/ \E p \in 1..Len(runs) : ImportDone(p)
  \/ \E p \in 1..Len(runs) : LoopNext(p)
  \/ \E p \in 1..Len(runs) : NotifyDone(p)
  \/ TimerFire

\* An invocation whose failure would take the tool off the server.
InvokeRetracting(name, hasArgs, behavior) ==
  /\ Alive
  /\ Idle
  /\ proc = "connected"
  /\ name \in DOMAIN serverTools
  /\ call' = [name |-> name, behavior |-> behavior,
               result |-> Adapter(hasArgs, behavior)]
  /\ serverTools' = IF behavior \in {"string", "value"}
                       THEN serverTools ELSE Without(serverTools, {name})
  /\ UNCHANGED <<hotReload, dirExists, proc, dir, fs, dupThrows,
                 registeredTools, watching, pendingReloads,
                 reloadTimeout, timers, runs, notifications, evCount, hist,
                 dirty, contributed, nEvents, nEdits, clock, now, armedAt,
                 moduleMap>>

\* A client invokes a registered tool.  The server checks the arguments
\* against the schema passed to server.tool, if there is one, and calls the
\* handler only with arguments that pass.
Invoke(name, hasArgs, behavior) ==
  /\ Alive
  /\ Idle
  /\ proc = "connected"
  /\ name \in DOMAIN serverTools
  /\ (behavior = "invalid") => hasArgs
  /\ call' = [name |-> name, behavior |-> behavior,
               result |-> IF behavior = "invalid"
                            THEN "handler not called"
                            ELSE Adapter(hasArgs, behavior)]
  /\ UNCHANGED <<hotReload, dirExists, proc, dir, fs, dupThrows,
                 registeredTools, serverTools, watching, pendingReloads,
                 reloadTimeout, timers, runs, notifications, evCount, hist,
                 dirty, contributed, nEvents, nEdits, clock, now, armedAt,
                 moduleMap>>

\* The same program with tools being invoked, the files staying as they
\* are.
NextInvoke ==
  \/ Program
  \/ \E filename \in dir \cup {"m.md", ""} : WatchEvent(filename)
  \/ \E name \in DOMAIN serverTools : \E hasArgs \in BOOLEAN :
       \E behavior \in {"string", "value", "throws", "rejects", "invalid"} :
         Invoke(name, hasArgs, behavior)
SpecInvoke == Init /\ [][NextInvoke]_vars

\* The same program in which every await settles and every timer fires.
SpecLive == Init /\ [][Next]_vars /\ WF_vars(Program)

\* ------------------------------------------------------------ vocabulary
Runs == 1..Len(runs)
Batches == {p \in Runs : runs[p].kind = "batch"}

\* The loadToolFile call of run p has just returned.
Returned(p) == runs[p].pc = "returned"
ReturnedOutcome(p) == runs[p].outcomes[Len(runs[p].outcomes)]

\* The names file f's current content exports as tools (none if the file
\* is gone or does not load).
Derived(f) ==
  IF fs[f].st = "ok" THEN Range(ExportNames(BaseName(f), fs[f].mod)) ELSE {}

Tracked(baseName) ==
  IF baseName \in DOMAIN registeredTools THEN registeredTools[baseName] ELSE {}

\* The names live in the server whose handler file f provided.
ProvidedBy(f) == {n \in DOMAIN serverTools : serverTools[n] = f}

\* The content the returned call of run p read is still the file's content.
ReadIsCurrent(p) ==
  runs[p].snap # {} => fs[CurFile(p)] = Ok(runs[p].snap)

\* ================================================================ claims

\* C1 -- No stale capability: whenever loadToolFile(F) has returned, the
\* tools registered for F are exactly the ones derived from F's exports at
\* that moment, and all of them are tracked for F.  (Stated for the returns
\* without a load failure at which F still holds the content the call
\* read.)
C1_NoStaleCapability ==
  \A p \in Runs :
    (/\ Returned(p)
     /\ ReturnedOutcome(p) \in {"active", "retracted"}
     /\ ReadIsCurrent(p)) =>
      /\ ProvidedBy(CurFile(p)) = Derived(CurFile(p))
      /\ Derived(CurFile(p)) \subseteq Tracked(BaseName(CurFile(p)))

\* C2 -- Two reload batches never overlap: no timer callback starts while
\* an earlier one has not yet ended.
C2_BatchesNeverOverlap ==
  \A p, q \in Batches : (p # q) => (runs[p].pc = "done" \/ runs[q].pc = "done")

\* C3 -- Registry consistency: when no load is in progress, the names
\* tracked for a file identity are exactly the live names that identity
\* provided, and every live name is tracked by exactly one identity.
C3_RegistryConsistency ==
  (\A p \in Runs : ~InFlight(p)) =>
    /\ \A b \in DOMAIN registeredTools :
         registeredTools[b] =
           {n \in DOMAIN serverTools : BaseName(serverTools[n]) = b}
    /\ \A n \in DOMAIN serverTools :
         Cardinality({b \in DOMAIN registeredTools : n \in registeredTools[b]}) = 1

\* C4 -- Deletion retracts cleanly: when a loadToolFile(F) that began
\* after F was deleted has returned having found F deleted, for an F that
\* had registered tools before, no tool of F is registered and
\* registeredTools has no entry for F.
C4_DeletionRetracts ==
  \A p \in Runs :
    (/\ Returned(p)
     /\ ReturnedOutcome(p) = "retracted"
     /\ runs[p].gone
     /\ CurFile(p) \in contributed) =>
      /\ BaseName(CurFile(p)) \notin DOMAIN registeredTools
      /\ ProvidedBy(CurFile(p)) = {}

\* C5 -- Load failure leaves nothing behind: when loadToolFile(F) has
\* returned through its "Failed to load" branch, no tool of F is
\* registered.  (Stated for the failures of the import itself.)
C5_FailureLeavesNothing ==
  \A p \in Runs :
    (Returned(p) /\ ReturnedOutcome(p) = "failed" /\ runs[p].snap = {}) =>
      ProvidedBy(CurFile(p)) = {}

\* The files that have a loadToolFile call in progress.
Loading == {CurFile(p) : p \in {q \in Runs : InFlight(q)}}

\* C6 -- Cross-file isolation: a step changes the registered tools of a
\* file only if a loadToolFile call of that very file is in progress
\* before or after the step.
C6_CrossFileIsolation ==
  [][\A g \in Files :
       (ProvidedBy(g)' # ProvidedBy(g)) => (g \in Loading \/ g \in Loading')]_vars

\* C7 -- Batch independence: a timer callback ends only when no file of
\* its batch is left to load, whatever the outcomes of the earlier files;
\* and a call that has returned active has registered every tool it
\* imported.
C7_BatchIndependence ==
  /\ [](\A p \in Batches :
         (Returned(p) /\ ReturnedOutcome(p) = "active") =>
           \A n \in Range(ExportNames(BaseName(CurFile(p)), runs[p].snap)) :
             /\ n \in Tracked(BaseName(CurFile(p)))
             /\ n \in DOMAIN serverTools
             /\ serverTools[n] = CurFile(p))
  /\ [][\A p \in Batches :
         (runs[p].pc # "done" /\ runs'[p].pc = "done") =>
           (runs[p].i >= Len(runs[p].files))]_vars

\* C8 -- Debounce coalescing: the events that arrive before the timer
\* fires only wait in pendingReloads with the one timer armed; the batch
\* the timer drains holds each file that had events exactly once, however
\* many events it had, so the file is loaded once; and the batch ends
\* having sent exactly one notification.
C8_DebounceCoalescing ==
  /\ [](/\ \A f \in Files : (evCount[f] >= 1) <=> (f \in Range(pendingReloads))
        /\ Cardinality(Range(pendingReloads)) = Len(pendingReloads)
        /\ (pendingReloads # <<>>) => (reloadTimeout = "armed")
        /\ \A p \in Batches :
             (runs[p].pc # "done") =>
               /\ Cardinality(Range(runs[p].files)) = Len(runs[p].files)
               /\ Range(runs[p].files) = {f \in Files : runs[p].burst[f] >= 1}
               /\ runs[p].i <= Len(runs[p].files) + 1)
  /\ [][\A p \in Batches :
         (runs[p].pc # "done" /\ runs'[p].pc = "done") =>
           (runs'[p].notified = 1)]_vars

\* C9 -- Notifier: every timer callback sends one notification, after
\* the last loadToolFile call of its batch has returned and whatever the
\* outcomes; loadAllTools sends none, and no other notification is sent.
C9_NotifyOncePerBatch ==
  /\ \A p \in Batches :
       /\ (runs[p].notified = 1) <=> (runs[p].pc \in {"notify", "done"})
       /\ (runs[p].notified = 0) <=> (runs[p].pc \in {"stat", "import", "eval", "returned"})
       /\ (runs[p].pc = "notify") =>
            (Len(runs[p].files) >= 1 /\ Len(runs[p].outcomes) = Len(runs[p].files))
  /\ runs[1].notified = 0
  /\ notifications = Cardinality({p \in Batches : runs[p].notified = 1})

\* C10 -- Idempotent reload: when loadToolFile(F) has loaded F and
\* returned, F was not edited from the read of its last finished load up
\* to this return (F's content is the one its last finished load read),
\* and no other run was in progress during the call, the server's tools
\* (names and the file providing each) are what they were when the call
\* began.
C10_IdempotentReload ==
  \A p \in Runs :
    (Returned(p) /\ ReturnedOutcome(p) = "active" /\ runs[p].same) =>
      (serverTools = runs[p].pre)

\* What loadAllTools leaves in the two tables when it loads `files` one
\* after the other from a directory nobody touches meanwhile.
RECURSIVE ScanFold(_, _, _)
ScanFold(files, rt, sk) ==
  IF files = <<>> THEN [rt |-> rt, sk |-> sk]
  ELSE LET file == Head(files)
           u == unregisterFileTools(rt, sk, file)
           reg == RegisterAll(u.rt, u.sk,
                              ExportNames(BaseName(file), fs[file].mod),
                              BaseName(file), file)
       IN  CASE ~Eligible(file) -> ScanFold(Tail(files), rt, sk)
             [] fs[file].st = "ok" -> ScanFold(Tail(files), reg.rt, reg.sk)
             [] fs[file].st = "null" -> [rt |-> u.rt, sk |-> u.sk]
             [] OTHER -> ScanFold(Tail(files), u.rt, u.sk)

\* C14 -- Watch failure is not fatal: when toolDir does not exist and hot
\* reload is enabled, so that starting the watch fails, the process has
\* not crashed, and once loadAllTools has returned the server is
\* connected.
C14_WatchFailureNotFatal ==
  (hotReload /\ ~dirExists) =>
    /\ proc # "crashed"
    /\ (runs[1].pc = "done") => (proc = "connected")

NamesOf(baseName, exports) ==
  {IF e[1] = "default" THEN baseName ELSE baseName \o "_" \o e[1] :
     e \in exports}

\* A value that is a non-null object with a string description and a
\* callable execute.
IsObjectTool(kind) ==
  /\ Shape(kind).type = "object"
  /\ Shape(kind).description = "string"
  /\ Shape(kind).execute = "function"

\* A value that has a string description and a callable execute.
HasDescriptionAndExecute(kind) ==
  Shape(kind).description = "string" /\ Shape(kind).execute = "function"

\* The returned call of run p ran with no other call on its file identity
\* since it began: only loadAllTools and one timer callback have started.
RanAlone(p) == Returned(p) /\ Len(runs) <= 2

C17_LastRegistrationWins ==
  [][\A p \in Runs :
       (/\ runs[p].pc = "eval"
        /\ runs'[p].pc = "returned"
        /\ \E n \in Range(ExportNames(BaseName(CurFile(p)), runs[p].snap)) :
             /\ n \in DOMAIN serverTools
             /\ BaseName(serverTools[n]) # BaseName(CurFile(p))) =>
         /\ runs'[p].outcomes[Len(runs'[p].outcomes)] = "active"
         /\ \A n \in Range(ExportNames(BaseName(CurFile(p)), runs[p].snap)) :
              n \in DOMAIN serverTools' /\ serverTools'[n] = CurFile(p)]_vars

\* C19 -- loadToolFile always reaches a terminal state: a call in progress
\* stays in progress or returns to its loop as retracted, failed or
\* active; no step ends it otherwise.
C19_TerminalState ==
  [][\A p \in Runs :
       InFlight(p) =>
         \/ runs'[p].pc \in {"stat", "import", "eval"} /\ runs'[p].i = runs[p].i
         \/ /\ runs'[p].pc = "returned"
            /\ runs'[p].i = runs[p].i + 1
            /\ runs'[p].outcomes[Len(runs'[p].outcomes)]
                 \in {"retracted", "failed", "active"}]_vars

\* Run p is newly at a loadToolFile call on an eligible file after the
\* step: it is a new run or it has moved on to another file.
Begins(p) ==
  /\ p \in 1..Len(runs')
  /\ runs'[p].pc \in {"stat", "import", "eval"}
  /\ (p > Len(runs) \/ runs[p].pc \in {"readdir", "returned"})

\* C20 -- Unregister first: the step that begins a loadToolFile call on an
\* eligible file removes the entry of the file's identity and the names it
\* tracked from the server, changes nothing if there was no entry, and
\* leaves the call at its existence check; names are registered only by
\* the step that ends a call's import.
C20_UnregisterFirst ==
  [][/\ \A p \in 1..(MaxBatches + 1) :
          Begins(p) =>
            LET file == runs'[p].files[runs'[p].i] IN
            /\ runs'[p].pc = "stat"
            /\ registeredTools' = Without(registeredTools, {BaseName(file)})
            /\ serverTools' = Without(serverTools, Tracked(BaseName(file)))
            /\ (BaseName(file) \notin DOMAIN registeredTools) =>
                 (registeredTools' = registeredTools /\ serverTools' = serverTools)
     /\ (\E n \in DOMAIN serverTools' :
            n \notin DOMAIN serverTools \/ serverTools'[n] # serverTools[n]) =>
          (\E p \in Runs : runs[p].pc = "eval" /\ runs'[p].pc = "returned")]_vars

\* A timer callback has begun to reload m.ts, which loadAllTools had
\* loaded from the same content, and no entry is left for its identity
\* while its stat is awaited.
C20_Witness ==
  \E p \in Batches :
    /\ Len(runs) = 2
    /\ nEdits = 0
    /\ runs[p].pc = "stat"
    /\ CurFile(p) = "m.ts"
    /\ fs["m.ts"].st = "ok"
    /\ "m" \notin DOMAIN registeredTools

\* C13 -- Invocation during reload: while a loadToolFile(F) is in progress
\* and has read F's new version, every name that F provided when the call
\* began and that the new version exports as well is registered with the
\* server, so that an invocation finds a handler.
C13_NameNeverAbsent ==
  \A p \in Runs :
    (runs[p].pc = "eval") =>
      \A n \in Range(ExportNames(BaseName(CurFile(p)), runs[p].snap)) :
        (n \in DOMAIN runs[p].pre /\ runs[p].pre[n] = CurFile(p)) =>
          (n \in DOMAIN serverTools)

\* C11 -- Fresh load: the import URL a call issues for a file differs from
\* the URL of every earlier import of that file and of every other import
\* of it in progress, and the module a call evaluates is the file's
\* content at the time the import reads it.
C11_FreshLoad ==
  /\ [](\A p \in Runs :
         (runs[p].pc = "import") =>
           /\ <<CurFile(p), runs[p].t>> \notin DOMAIN moduleMap
           /\ \A q \in Runs \ {p} :
                (runs[q].pc = "import" /\ CurFile(q) = CurFile(p)) =>
                  (runs[q].t # runs[p].t))
  /\ [][\A p \in Runs :
         (runs[p].pc = "import" /\ runs'[p].pc = "eval") =>
           (runs'[p].snap = fs[CurFile(p)].mod)]_vars

\* C12 -- Adapter failure containment: an invocation whose execute throws
\* or rejects gets a response from the handler; the handler does not
\* reject.
C12_AdapterContainsFailure ==
  (call.behavior \in {"throws", "rejects"}) => (call.result # "rejected")

\* C18 -- No lost change: a file that waits in pendingReloads is later
\* loaded by a timer callback that starts after that moment; and the
\* step that empties pendingReloads starts a timer callback whose batch
\* is the whole pending list.
C18_NoLostChange ==
  /\ \A f \in Files : \A k \in 1..(MaxBatches + 1) :
       (f \in Range(pendingReloads) /\ Len(runs) = k)
         ~> (\E p \in Batches :
               p > k /\ runs[p].pc = "stat" /\ CurFile(p) = f)
  /\ [][(pendingReloads # <<>> /\ pendingReloads' = <<>>) =>
         /\ Len(runs') = Len(runs) + 1
         /\ runs'[Len(runs')].files = pendingReloads]_vars

\* C21 -- Sequential processing within a batch: in every run (loadAllTools
\* or a timer callback) the call on a file is in progress or has just
\* returned only when every earlier file of the run has its outcome, and
\* a run with a call in progress does not move to another file.
C21_SequentialWithinBatch ==
  /\ [](\A p \in Runs :
         (runs[p].pc \in {"stat", "import", "eval", "returned"}) =>
           /\ Len(runs[p].outcomes) = runs[p].i - 1
           /\ runs[p].i <= Len(runs[p].files) + 1)
  /\ [][\A p \in Runs :
         (InFlight(p) /\ runs'[p].pc \in {"stat", "import", "eval"}) =>
           (runs'[p].i = runs[p].i)]_vars

\* A timer callback awaits the stat of its second file, after the call on
\* its first file has returned.
C21_Witness ==
  \E p \in Batches :
    /\ runs[p].pc = "stat"
    /\ runs[p].i = 2
    /\ Len(runs[p].outcomes) = 1
    /\ runs[p].outcomes[1] \in {"active", "failed", "retracted"}

\* C25 -- Debounce timer invariant: at most one debounce timer is set at a
\* time, it is the one reloadTimeout names, and it is set whenever
\* pendingReloads is not empty; every firing of a timer finds
\* pendingReloads non-empty, empties it and leaves no timer set.
C25_DebounceTimer ==
  /\ [](/\ timers <= 1
        /\ (timers = 1) <=> (reloadTimeout = "armed")
        /\ (pendingReloads # <<>>) => (timers = 1))
  /\ [][(Len(runs') > Len(runs)) =>
          /\ pendingReloads # <<>>
          /\ pendingReloads' = <<>>
          /\ timers' = 0]_vars

\* A timer has fired, and a later event has set the next one.
C25_Witness ==
  /\ Len(runs) >= 2
  /\ reloadTimeout = "armed"
  /\ timers = 1
  /\ pendingReloads # <<>>
  /\ nEvents = 2

\* Names the watcher may report that do not end in .ts or .js, and the
\* event without a name.
OtherNames == {"", "m.md", "m.tsx", "m.json", "m.ts.bak", "ts", "js"}

\* C22 -- Eligibility filter: in every state the watch callback, given no
\* filename or one not ending in .ts or .js, leaves pendingReloads, the
\* handle, the timer and the time it was set as they are; no such name
\* is ever pending or in a batch, no loadToolFile call on such a file
\* gets past the filter, and a scan passes over exactly these files.
C22_EligibilityFilter ==
  /\ \A filename \in OtherNames :
       Watched(filename) = [pendingReloads |-> pendingReloads,
                            reloadTimeout |-> reloadTimeout,
                            timers |-> timers,
                            armedAt |-> armedAt]
  /\ \A k \in 1..Len(pendingReloads) : pendingReloads[k] \notin OtherNames
  /\ \A p \in Runs :
       /\ (runs[p].kind = "batch") =>
            (\A k \in 1..Len(runs[p].files) :
               runs[p].files[k] \notin OtherNames)
       /\ InFlight(p) => (CurFile(p) \notin OtherNames)
       /\ \A k \in 1..Len(runs[p].outcomes) :
            (runs[p].outcomes[k] = "skipped") <=>
              (runs[p].files[k] \in OtherNames)

\* The watcher can deliver an event while names are pending and the timer
\* is set, after a scan that has passed over m.md.
C22_Witness ==
  /\ watching
  /\ dirExists
  /\ Alive
  /\ Idle
  /\ nEvents < MaxEvents
  /\ reloadTimeout = "armed"
  /\ pendingReloads # <<>>

\* C23 -- Invocation does not touch registry state: a step in which a
\* registered tool is invoked, whether its handler returns a response,
\* rejects, or is not called because the arguments fail the schema,
\* leaves registeredTools, the server's tools and pendingReloads as they
\* are.
C23_InvocationLeavesRegistry ==
  [][(call' # call) =>
       /\ call'.name \in DOMAIN serverTools
       /\ registeredTools' = registeredTools
       /\ serverTools' = serverTools
       /\ pendingReloads' = pendingReloads]_vars

\* A tool was invoked with arguments that fail its schema while a name
\* is pending, and is still registered.
C23_Witness ==
  /\ call.behavior = "invalid"
  /\ call.name \in DOMAIN serverTools
  /\ registeredTools # <<>>
  /\ pendingReloads # <<>>

\* C24 -- FileRegistration lifecycle: registeredTools never holds an
\* empty set of names; when a loadToolFile call has returned, the entry of
\* the file's identity is absent if the file was found deleted or failed
\* to load, and otherwise present exactly when the call registered at
\* least one tool.
C24_RegistrationLifecycle ==
  /\ \A baseName \in DOMAIN registeredTools : registeredTools[baseName] # {}
  /\ \A p \in Runs :
       Returned(p) =>
         LET baseName == BaseName(CurFile(p)) IN
         IF ReturnedOutcome(p) = "active"
           THEN (baseName \in DOMAIN registeredTools) <=>
                  (ProvidedBy(CurFile(p)) # {})
           ELSE baseName \notin DOMAIN registeredTools

====
